---- MODULE Spec2Model ----
(***************************************************************************)
(* Model of the combined playlist parser of MediaFusion                    *)
(* (scrapers/combined_playlist_parser.py): fetch of the source playlists,  *)
(* classification of every record as live event or regular TV channel,     *)
(* the two merge engines, and the end-of-run commit to the document store  *)
(* and to the time-indexed cache.                                          *)
(*                                                                         *)
(* Text is a sequence of characters, a character a small integer:          *)
(*   0        white space                                                  *)
(*   1 .. 9   letters                                                      *)
(*   11, 12   a date token ("Jan 5 2025", "5/1/25"): matches date_pattern  *)
(*   21 .. 25 a time token ("10:05 PM"): matches time_pattern              *)
(* Time is counted in ticks, TicksPerSecond of them to the second, so that *)
(* int() applied to a float number of seconds truncates something.         *)
(***************************************************************************)
EXTENDS Integers, Sequences, FiniteSets, TLC

\* ------------------------------------------------------------------ bounds
MaxRuns == 2
TicksPerSecond == 4
EpochBase == 100000

\* -------------------------------------------------------- program constants
FUZZY_MATCH_THRESHOLD == 90
TIME_WINDOW_SECONDS == 3600
DAY_SECONDS == 86400

\* an optional value: None, or the value wrapped
None == <<>>
Some(x) == <<x>>
PLAYLIST_SOURCE == "Combined Playlist"

\* ------------------------------------------------------------ text helpers
Space == 0
IsSpace(c) == c = Space
Max(a, b) == IF a >= b THEN a ELSE b

RECURSIVE LStrip(_)
LStrip(s) == IF s # <<>> /\ IsSpace(Head(s)) THEN LStrip(Tail(s)) ELSE s

RECURSIVE RStrip(_)
RStrip(s) ==
  IF s # <<>> /\ IsSpace(s[Len(s)]) THEN RStrip(SubSeq(s, 1, Len(s) - 1)) ELSE s

\* str.strip()
Strip(s) == RStrip(LStrip(s))

\* re.sub(r"\s+", " ", s): every run of white space becomes one space
RECURSIVE CollapseSpaces(_)
CollapseSpaces(s) ==
  IF s = <<>> THEN <<>>
  ELSE IF IsSpace(Head(s))
       THEN <<Space>> \o CollapseSpaces(LStrip(s))
       ELSE <<Head(s)>> \o CollapseSpaces(Tail(s))

\* re.sub(r"\s+", " ", clean_name).strip()
NormalizeName(s) == Strip(CollapseSpaces(s))

\* The table of the longest common subsequence, row by row. A value handed
\* on to the next step is bound by a quantifier (x \in {e}), which evaluates
\* it once.
\* One row: prev is the row above, acc the cells of this row already
\* computed (columns 0 .. j-1).
RECURSIVE LcsRow(_, _, _, _, _)
LcsRow(prev, a, b, j, acc) ==
  IF j > Len(b) THEN acc
  ELSE LET v == IF j = 0 THEN 0
                ELSE IF a = b[j] THEN prev[j] + 1
                ELSE Max(prev[j + 1], acc[j])
       IN CHOOSE r \in {LcsRow(prev, a, b, j + 1, next) : next \in {Append(acc, v)}} : TRUE

RECURSIVE LcsRows(_, _, _, _)
LcsRows(s1, s2, i, prev) ==
  IF i > Len(s1) THEN prev[Len(s2) + 1]
  ELSE CHOOSE r \in {LcsRows(s1, s2, i + 1, row) :
                       row \in {LcsRow(prev, s1[i], s2, 0, <<>>)}} : TRUE

Lcs(s1, s2) ==
  CHOOSE r \in {LcsRows(a, b, 1, [j \in 1..(Len(b) + 1) |-> 0]) : a \in {s1}, b \in {s2}} : TRUE

\* round(): to the nearest integer, a tie to the even one
RoundHalfEven(num, den) ==
  LET q == num \div den
      r == num % den
  IN IF 2 * r < den THEN q
     ELSE IF 2 * r > den THEN q + 1
     ELSE IF q % 2 = 0 THEN q ELSE q + 1

\* fuzz.ratio(s1, s2): the normalized indel similarity, 0 .. 100, rounded
IndelRatio(s1, s2) ==
  IF Len(s1) + Len(s2) = 0 THEN 100
  ELSE RoundHalfEven(200 * Lcs(s1, s2), Len(s1) + Len(s2))


\* ------------------------------------------------------- time and the TTL
\* int(x) of a real x given as the fraction num / den, den > 0: towards zero
IntTrunc(num, den) == IF num >= 0 THEN num \div den ELSE -((-num) \div den)

\* int((event_start_timestamp - datetime.now().timestamp()) + 86400),
\* ts in seconds, nowTicks in ticks
Ttl(ts, nowTicks) ==
  IntTrunc((ts + DAY_SECONDS) * TicksPerSecond - nowTicks, TicksPerSecond)

\* the instants at which the clock is observed
Instants ==
  { EpochBase * TicksPerSecond + 2,
    (EpochBase + DAY_SECONDS) * TicksPerSecond - 3,
    (EpochBase + DAY_SECONDS + TIME_WINDOW_SECONDS) * TicksPerSecond }

\* --------------------------------------------------------------- the input
DateTokens == {11, 12}
TimeTokens == {21, 22, 23, 24, 25}

\* a classifier that is content with the date
IsEventNameDateOnly(raw_name) ==
  \E i \in 1..Len(raw_name) : raw_name[i] \in DateTokens

\* date_pattern.search(raw_name) and time_pattern.search(raw_name)
IsEventName(raw_name) ==
  /\ \E i \in 1..Len(raw_name) : raw_name[i] \in DateTokens
  /\ \E i \in 1..Len(raw_name) : raw_name[i] \in TimeTokens

TimeOffset(t) ==
  CASE t = 21 -> 0
    [] t = 22 -> 3000
    [] t = 23 -> TIME_WINDOW_SECONDS
    [] t = 24 -> TIME_WINDOW_SECONDS + 1
    [] OTHER -> 4000

\* a search that finds a date in any text
SearchDatesAnyText(raw_name) == Some(EpochBase)

\* search_dates(raw_name): the start of the first hit in seconds, None when
\* nothing in the text is a date (token 12 has the shape of a date and is none)
SearchDates(raw_name) ==
  LET dates == {i \in 1..Len(raw_name) : raw_name[i] = 11}
      times == {i \in 1..Len(raw_name) : raw_name[i] \in TimeTokens}
      first(S) == CHOOSE i \in S : \A j \in S : i <= j
  IN IF dates = {} THEN None
     ELSE IF times = {} THEN Some(EpochBase)
     ELSE Some(EpochBase + TimeOffset(raw_name[first(times)]))

ChanA == <<1, 2, 3, 4, 0, 5, 6, 7, 8, 9>>
ChanA2 == <<1, 2, 3, 4, 0, 5, 6, 7, 8, 1>>
ChanASpaced == <<0, 1, 2, 3, 4, 0, 0, 5, 6, 7, 8, 9>>
ChanB == <<7, 8, 11>>
ShortName == <<0, 5, 0>>
EventAt(t) == <<1, 2, 3, 0, 4, 5, 6, 7, 11, t>>
BadDateEvent == <<1, 2, 3, 0, 4, 5, 6, 7, 12, 21>>

\* fuzz.ratio for the titles above is computed once and looked up after that
\* (the @@ turns the table into an enumerated function)
KnownTitles ==
  {ChanA, ChanA2, ChanB, BadDateEvent} \cup {EventAt(t) : t \in TimeTokens}
RatioTable ==
  [p \in KnownTitles \X KnownTitles |-> IndelRatio(p[1], p[2])] @@ <<>>
FuzzRatio(s1, s2) ==
  IF <<s1, s2>> \in DOMAIN RatioTable THEN RatioTable[<<s1, s2>>] ELSE IndelRatio(s1, s2)

GroupSports == <<3>>
GroupNews == <<4>>

\* one entry of a source playlist: the #EXTINF line and the URL line after it
Entry(name, url, group, tvg) ==
  [name |-> name, url |-> url, group |-> group, tvg |-> tvg]

\* the configured source URLs, and os.path.basename(urlparse(url).path)
SourceConfigs == {<<>>, <<"s1">>, <<"s1", "s2">>}
DefaultGroupName(url) == IF url = "s1" THEN GroupSports ELSE GroupNews

\* the playlists a source can answer with
Bodies(url) ==
  IF url = "s1"
  THEN { <<Entry(EventAt(21), "u1", Some(GroupSports), None),
           Entry(EventAt(21), "u3", Some(GroupSports), None)>>,
         <<Entry(EventAt(22), "u2", Some(GroupSports), None),
           Entry(EventAt(22), "u2", Some(GroupSports), None)>>,
         <<Entry(EventAt(23), "u2", None, None),
           Entry(EventAt(24), "u3", Some(GroupNews), None)>>,
         <<Entry(BadDateEvent, "u1", Some(GroupSports), None),
           Entry(ChanB, "", Some(GroupNews), None)>> }
  ELSE { <<Entry(ChanA, "u3", Some(GroupNews), None),
           Entry(ChanA2, "u3", Some(GroupNews), None)>>,
         <<Entry(ChanA, "u1", Some(GroupNews), None),
           Entry(ChanASpaced, "u1", Some(GroupSports), None),
           Entry(ChanA, "u3", Some(GroupNews), None)>>,
         <<Entry(ChanB, "u2", None, Some(ChanA)),
           Entry(ShortName, "u2", None, None),
           Entry(ShortName, "u2", None, None)>> }

\* ----------------------------------------------------------- identifiers
\* crypto.get_text_hash is a function of the text alone
TextHash(text) == text
ChannelId(channel_name) == <<"tv.", TextHash(channel_name)>>
EventId(raw_name) == <<"event", TextHash(raw_name)>>
EventKey(event_id) == <<"event:", event_id>>


\* ------------------------------------------------------------------ state
VARIABLES
  dbChannels,                 \* MediaFusionTVMetaData documents: <<[id, title]>>
  dbStreams,                  \* TVStreams documents: <<[meta_id, name, url, source]>>
  cache,                      \* Redis strings: key -> [value, exp], exp in ticks
  zall,                       \* sorted set "events:all": key -> score
  zgenre,                     \* sorted sets "events:genre:<g>": <<g, key>> -> score
  now,                        \* the clock, in ticks
  pc,                         \* where run() stands
  runs,                       \* runs started so far
  source_urls,                \* self.source_urls
  fetched,                    \* per source already asked: what the fetch ended in
  content,                    \* final_m3u_string, as its entries
  queue,                      \* the records in the order of the run loop
  idx,                        \* the record the run loop stands at
  existing_tv_channels_in_db, \* snapshot of the channels
  existing_stream_urls,       \* snapshot of the stream URLs of this playlist
  channel_batch,
  event_list,
  unique_channels_in_group,
  new_streams_batch,
  counters,                   \* skipped / added / merged
  last,                       \* what the last record processed ended in
  log,                        \* what every record of the run ended in, in order
  pipeline,                   \* the commands of the last pipeline flush
  flush_time,                 \* when that flush read the clock
  imported,                   \* the (name, URL) pairs of the runs that finished
  previous,                   \* the input of the first run, while a retry of it is
                              \* the same run again: it dropped no record and the
                              \* clock has not moved since
  parked,                     \* the local state of a run suspended at an await
  status                      \* how the last run ended

vars ==
  <<dbChannels, dbStreams, cache, zall, zgenre, now, pc, runs, source_urls,
    fetched, content, queue, idx, existing_tv_channels_in_db,
    existing_stream_urls, channel_batch, event_list, unique_channels_in_group,
    new_streams_batch, counters, last, log, pipeline, flush_time, imported,
    previous, parked, status>>

storeVars == <<dbChannels, dbStreams>>
cacheVars == <<cache, zall, zgenre>>
batchVars ==
  <<channel_batch, event_list, unique_channels_in_group, new_streams_batch, counters>>
snapshotVars == <<existing_tv_channels_in_db, existing_stream_urls>>
inputVars == <<source_urls, fetched, content, queue>>

\* ------------------------------------------------------------- the cache
\* a GET that still answers with an entry whose time to live has run out
GetExpiredToo(key) ==
  IF key \in DOMAIN cache THEN Some(cache[key].value) ELSE None

\* GET key: None once the entry has expired
Get(key) ==
  IF key \in DOMAIN cache /\ now < cache[key].exp THEN Some(cache[key].value) ELSE None

RECURSIVE SeqLess(_, _)
SeqLess(a, b) ==
  IF a = <<>> THEN b # <<>>
  ELSE IF b = <<>> THEN FALSE
  ELSE IF Head(a) # Head(b) THEN Head(a) < Head(b)
  ELSE SeqLess(Tail(a), Tail(b))

\* members of a sorted set are ordered by score, then by their bytes
MemberLess(z, k1, k2) ==
  \/ z[k1] < z[k2]
  \/ z[k1] = z[k2] /\ SeqLess(k1[2][2], k2[2][2])

RECURSIVE SortMembers(_, _)
SortMembers(z, S) ==
  IF S = {} THEN <<>>
  ELSE LET m == CHOOSE k \in S : \A o \in S \ {k} : MemberLess(z, k, o)
       IN <<m>> \o SortMembers(z, S \ {m})

\* the range with its ends left out, as ZRANGEBYSCORE name (min (max reads it
InScoreRangeOpen(score, min, max) == min < score /\ score < max

\* ZRANGEBYSCORE name min max: both ends inclusive
InScoreRange(score, min, max) == min <= score /\ score <= max
ZRangeByScore(z, min, max) ==
  SortMembers(z, {k \in DOMAIN z : InScoreRange(z[k], min, max)})

\* SET key value EX ttl: the server refuses an expire time that is not positive
SetAccepted(ttl) == ttl > 0

Put(f, k, v) == (k :> v) @@ f

\* one command of a pipeline applied to <<cache, zall, zgenre>>
ApplyCommand(c, st, t) ==
  IF c.op = "set"
  THEN IF SetAccepted(c.ttl)
       THEN [st EXCEPT !.cache =
               Put(@, c.key, [value |-> c.value, exp |-> t + c.ttl * TicksPerSecond])]
       ELSE st
  ELSE IF c.index = None
       THEN [st EXCEPT !.zall = Put(@, c.key, c.score)]
       ELSE [st EXCEPT !.zgenre = Put(@, <<c.index[1], c.key>>, c.score)]

RECURSIVE ApplyCommands(_, _, _)
ApplyCommands(cs, st, t) ==
  IF cs = <<>> THEN st ELSE ApplyCommands(Tail(cs), ApplyCommand(Head(cs), st, t), t)

SetCommand(key, value, ttl) ==
  [op |-> "set", key |-> key, value |-> value, ttl |-> ttl, index |-> None, score |-> 0]

\* a ZADD that leaves the start time out of the score
ZaddCommandUnscored(index, key, score) ==
  [op |-> "zadd", key |-> key, value |-> None, ttl |-> 0, index |-> index, score |-> 0]

\* pipeline.zadd(name, {event_key: event.event_start_timestamp})
ZaddCommand(index, key, score) ==
  [op |-> "zadd", key |-> key, value |-> None, ttl |-> 0, index |-> index, score |-> score]


\* ------------------------------------------------------ the event engine
\* the comparison with the threshold left out of the matches
IsFuzzyMatchStrict(a, b) == FuzzRatio(a, b) > FUZZY_MATCH_THRESHOLD

\* fuzz.ratio(a, b) >= FUZZY_MATCH_THRESHOLD
IsFuzzyMatch(a, b) == FuzzRatio(a, b) >= FUZZY_MATCH_THRESHOLD

\* the keys of the window from the highest score down
WindowKeysReversed(start) ==
  LET keys == ZRangeByScore(zall, start - TIME_WINDOW_SECONDS, start + TIME_WINDOW_SECONDS)
  IN [i \in 1..Len(keys) |-> keys[Len(keys) + 1 - i]]

\* the keys of "events:all" in [start - 3600, start + 3600], in index order
WindowKeys(start) ==
  ZRangeByScore(zall, start - TIME_WINDOW_SECONDS, start + TIME_WINDOW_SECONDS)

\* the loop over existing_event_keys: the first key whose entry is alive and
\* whose title matches, None when the loop ends without a break
RECURSIVE FirstMatchingEvent(_, _, _)
FirstMatchingEvent(raw_name, keys, i) ==
  IF i > Len(keys) THEN None
  ELSE LET e == Get(keys[i])
       IN IF e # None /\ IsFuzzyMatch(raw_name, e[1].title)
          THEN Some(keys[i])
          ELSE FirstMatchingEvent(raw_name, keys, i + 1)

\* the check of the streams of the cached event left out
StreamExistsNever(streams, url) == FALSE

\* any(s.url == new_stream_url for s in existing_event.streams)
StreamExists(streams, url) == \E i \in 1..Len(streams) : streams[i].url = url

EventStream(meta_id, raw_name, url) ==
  [meta_id |-> meta_id, name |-> raw_name, url |-> url, source |-> PLAYLIST_SOURCE]

\* channel.attributes.get("group-title", "Other Sports").strip()
OtherSports == <<8, 8>>
EventGenre(rec) == Strip(IF rec.group = None THEN OtherSports ELSE rec.group[1])

\* MediaFusionEventsMetaData(...) of a record that matched nothing
NewEvent(rec, raw_name, start) ==
  [id |-> EventId(raw_name),
   title |-> raw_name,
   event_start_timestamp |-> start,
   genres |-> <<EventGenre(rec)>>,
   streams |-> <<EventStream(EventId(raw_name), raw_name, rec.url)>>]

\* a rewrite that gives the entry a fresh day to live
MergeTtlFullDay(existing, t) == DAY_SECONDS

\* the TTL the merge path hands to SET
MergeTtl(existing, t) == Ttl(existing.event_start_timestamp, t)

\* what the last turn of the run loop ended in; set is the TTL of the SET it
\* handed to the cache, if any
NoLast ==
  [kind |-> "none", outcome |-> "none", name |-> <<>>, url |-> "",
   start |-> None, key |-> None, set |-> None]
Outcome(kind, outcome, name, url, start, key, set) ==
  [kind |-> kind, outcome |-> outcome, name |-> name, url |-> url,
   start |-> start, key |-> key, set |-> set]

\* _process_event(channel, event_list); every exception raised inside the
\* try block is caught and logged, the record is dropped. fault: a call to
\* the cache (zrangebyscore, get) raises, or model_validate_json rejects the
\* entry it was given (a malformed cache entry).
ProcessEvent(rec, fault) ==
  LET raw_name == Strip(rec.name)
      found_dates == SearchDates(raw_name)
  IN IF found_dates = None
     THEN \* ValueError("Date could not be found in the event title")
          /\ ~fault
          /\ last' = Outcome("event", "error", raw_name, rec.url, None, None, None)
          /\ UNCHANGED <<cacheVars, event_list>>
     ELSE IF fault
     THEN /\ last' = Outcome("event", "error", raw_name, rec.url,
                             found_dates, None, None)
          /\ UNCHANGED <<cacheVars, event_list>>
     ELSE
       LET start == found_dates[1]
           m == FirstMatchingEvent(raw_name, WindowKeys(start), 1)
       IN IF m = None
          THEN /\ event_list' = Append(event_list, NewEvent(rec, raw_name, start))
               /\ last' = Outcome("event", "staged", raw_name, rec.url,
                                  Some(start), None, None)
               /\ UNCHANGED cacheVars
          ELSE
            LET event_key == m[1]
                existing_event == cache[event_key].value
            IN IF StreamExists(existing_event.streams, rec.url)
               THEN /\ last' = Outcome("event", "duplicate", raw_name, rec.url,
                                       Some(start), m, None)
                    /\ UNCHANGED <<cacheVars, event_list>>
               ELSE
                 LET ttl == MergeTtl(existing_event, now)
                     merged == [existing_event EXCEPT !.streams =
                                  Append(@, EventStream(existing_event.id, raw_name, rec.url))]
                 IN /\ UNCHANGED <<zall, zgenre, event_list>>
                    /\ IF SetAccepted(ttl)
                       THEN /\ cache' = Put(cache, event_key,
                                            [value |-> merged,
                                             exp |-> now + ttl * TicksPerSecond])
                            /\ last' = Outcome("event", "merged", raw_name, rec.url,
                                               Some(start), m, Some(ttl))
                       ELSE \* the server's error reply is raised and caught
                            /\ cache' = cache
                            /\ last' = Outcome("event", "error", raw_name, rec.url,
                                               Some(start), m, Some(ttl))

\* ---------------------------------------------------- the channel engine
\* channel.attributes.get(IPTVAttr.TVG_NAME.value, raw_name), normalized
ChannelName(rec) ==
  NormalizeName(IF rec.tvg = None THEN Strip(rec.name) ELSE rec.tvg[1])

\* a check that only rejects the empty name
IsShortNameEmptyOnly(channel_name) == Len(channel_name) < 1

\* len(channel_name) < 2
IsShortName(channel_name) == Len(channel_name) < 2

\* the loop over existing_tv_channels_in_db: the position of the first
\* channel whose title matches, 0 when the loop ends without a break
RECURSIVE FirstMatchingChannel(_, _, _)
FirstMatchingChannel(channel_name, existing, i) ==
  IF i > Len(existing) THEN 0
  ELSE IF IsFuzzyMatch(channel_name, existing[i].title) THEN i
  ELSE FirstMatchingChannel(channel_name, existing, i + 1)

\* stream_exists = new_stream_url in existing_stream_urls
ChannelStreamExists(url, urls) == url \in urls

\* re.split("[,;|]", group-title or ""), each part normalized
Separator == 10
RECURSIVE SplitGenres(_, _)
SplitGenres(text, part) ==
  IF text = <<>> THEN <<NormalizeName(part)>>
  ELSE IF Head(text) = Separator
       THEN <<NormalizeName(part)>> \o SplitGenres(Tail(text), <<>>)
       ELSE SplitGenres(Tail(text), Append(part, Head(text)))
ChannelGenres(rec) == SplitGenres(IF rec.group = None THEN <<>> ELSE rec.group[1], <<>>)

\* a stream that takes the hash of its own name for its owner
TVStreamOwnHash(meta_id, channel_name, url) ==
  [meta_id |-> ChannelId(channel_name), name |-> channel_name, url |-> url,
   source |-> PLAYLIST_SOURCE]

\* models.TVStreams(meta_id=..., name=channel_name, url=..., source=...)
TVStream(meta_id, channel_name, url) ==
  [meta_id |-> meta_id, name |-> channel_name, url |-> url, source |-> PLAYLIST_SOURCE]

\* the id taken from the raw name of the record
NewChannelRawId(rec, channel_name, url) ==
  [id |-> ChannelId(Strip(rec.name)),
   title |-> channel_name,
   genres |-> ChannelGenres(rec),
   streams |-> <<TVStream(ChannelId(Strip(rec.name)), channel_name, url)>>]

\* schemas.TVMetaData(...).model_dump() of a record that matched nothing
NewChannel(rec, channel_name, url) ==
  [id |-> ChannelId(channel_name),
   title |-> channel_name,
   genres |-> ChannelGenres(rec),
   streams |-> <<TVStream(ChannelId(channel_name), channel_name, url)>>]

Bump(c, field) == [c EXCEPT ![field] = @ + 1]

\* the key built from the raw name instead of the normalized one
InMemoryKeyRaw(rec, channel_name) == <<Strip(rec.name), rec.url>>

\* in_memory_key = (channel_name, channel.url)
InMemoryKey(rec, channel_name) == <<channel_name, rec.url>>

\* an exception leaves run(): the scheduler's wrapper logs it
Raise ==
  /\ pc' = "done"
  /\ status' = "raised"

\* _process_regular_channel(...); nothing in it catches an exception.
\* fault: building the stream or the metadata (models.TVStreams,
\* schemas.TVMetaData, is_valid_url) raises. next: where the run goes on.
ProcessRegularChannel(rec, fault, next) ==
  LET channel_name == ChannelName(rec)
      in_memory_key == InMemoryKey(rec, channel_name)
      hit == FirstMatchingChannel(channel_name, existing_tv_channels_in_db, 1)
      out(o) == Outcome("channel", o, channel_name, rec.url, None, None, None)
      goOn == pc' = next /\ UNCHANGED status
  IN IF IsShortName(channel_name)
     THEN /\ ~fault
          /\ last' = out("short")
          /\ goOn
          /\ UNCHANGED <<channel_batch, unique_channels_in_group, new_streams_batch,
                         counters>>
     ELSE IF in_memory_key \in unique_channels_in_group
     THEN /\ ~fault
          /\ counters' = Bump(counters, "skipped")
          /\ last' = out("seen")
          /\ goOn
          /\ UNCHANGED <<channel_batch, unique_channels_in_group, new_streams_batch>>
     ELSE
       /\ unique_channels_in_group' = unique_channels_in_group \cup {in_memory_key}
       /\ IF hit # 0
          THEN IF ~ChannelStreamExists(rec.url, existing_stream_urls)
               THEN /\ counters' = Bump(counters, "merged")
                    /\ UNCHANGED channel_batch
                    /\ IF fault
                       THEN /\ last' = out("raised")
                            /\ Raise
                            /\ UNCHANGED new_streams_batch
                       ELSE /\ new_streams_batch' =
                                 Append(new_streams_batch,
                                        TVStream(existing_tv_channels_in_db[hit].id,
                                                 channel_name, rec.url))
                            /\ last' = out("merged")
                            /\ goOn
               ELSE /\ ~fault
                    /\ counters' = Bump(counters, "skipped")
                    /\ last' = out("duplicate")
                    /\ goOn
                    /\ UNCHANGED <<channel_batch, new_streams_batch>>
          ELSE /\ counters' = Bump(counters, "added")
               /\ UNCHANGED new_streams_batch
               /\ IF fault
                  THEN /\ last' = out("raised")
                       /\ Raise
                       /\ UNCHANGED channel_batch
                  ELSE /\ channel_batch' =
                            Append(channel_batch, NewChannel(rec, channel_name, rec.url))
                       /\ last' = out("staged")
                       /\ goOn

\* ----------------------------------------------------------- the fetcher
\* the lines _generate_combined_content keeps of one entry: an #EXTINF line
\* without group-title gets the default one, a URL line is kept when it
\* starts with "http" ("" stands for a URL line that was not kept)
TagEntry(e, default_group_name) ==
  [e EXCEPT !.group = IF e.group = None THEN Some(default_group_name) ELSE e.group]
RECURSIVE TagBody(_, _)
TagBody(body, default_group_name) ==
  IF body = <<>> THEN <<>>
  ELSE <<TagEntry(Head(body), default_group_name)>>
       \o TagBody(Tail(body), default_group_name)

\* the handler starting the combined playlist over
AfterRequestErrorReset(combined) == <<>>

\* except httpx.RequestError: log and continue with what was combined so far
AfterRequestError(combined) == combined

\* the combined text without its header line
ContentLinesNoHeader(entries) == Len(entries)

\* `not content`: the text starts with the line "#EXTM3U"
ContentLines(entries) == 1 + Len(entries)
ContentIsEmpty(entries) == ContentLines(entries) = 0

\* ------------------------------------------------------------- grouping
Uncategorized == <<9, 9>>
GroupTitle(rec) == Strip(IF rec.group = None THEN Uncategorized ELSE rec.group[1])

\* the keys of grouped_channels in insertion order
RECURSIVE GroupOrder(_, _)
GroupOrder(channels, seen) ==
  IF channels = <<>> THEN seen
  ELSE LET g == GroupTitle(Head(channels))
       IN GroupOrder(Tail(channels),
                     IF \E i \in 1..Len(seen) : seen[i] = g THEN seen ELSE Append(seen, g))

RECURSIVE ConcatGroups(_, _)
ConcatGroups(channels, groups) ==
  IF groups = <<>> THEN <<>>
  ELSE LET InGroup(c) == GroupTitle(c) = Head(groups)
       IN SelectSeq(channels, InGroup) \o ConcatGroups(channels, Tail(groups))

\* the order in which the run loop visits the records
RunOrder(channels) == ConcatGroups(channels, GroupOrder(channels, <<>>))

\* ------------------------------------------------------------ the store
\* find_all(projection_model=schemas.TVMetaProjection): id and title
RECURSIVE Projection(_)
Projection(channels) ==
  IF channels = <<>> THEN <<>>
  ELSE <<[id |-> Head(channels).id, title |-> Head(channels).title]>>
       \o Projection(Tail(channels))

\* {c.url for c in channels if c.url}
PlaylistStreamUrls(channels) ==
  {channels[i].url : i \in {j \in 1..Len(channels) : channels[j].url # ""}}

\* the prefetch of the stored stream URLs left out
StoredUrlsSkipped(streams, urls) == {}

\* TVStreams.find(In(TVStreams.url, urls)): the URLs of the stored streams
StoredUrlsAmong(streams, urls) ==
  {streams[i].url : i \in {j \in 1..Len(streams) : streams[j].url \in urls}}

\* the bulk insert left out
InsertManySkipped(streams, batch) == streams

\* TVStreams.insert_many(new_streams_batch)
InsertMany(streams, batch) == streams \o batch

HasChannel(channels, id) == \E i \in 1..Len(channels) : channels[i].id = id
HasStream(streams, meta_id, url) ==
  \E i \in 1..Len(streams) : streams[i].meta_id = meta_id /\ streams[i].url = url

\* add_tv_metadata(batch): creates the channel unless its id is stored, and
\* stores those of its streams the channel does not hold yet
RECURSIVE UpsertStreams(_, _)
UpsertStreams(streams, new) ==
  IF new = <<>> THEN streams
  ELSE UpsertStreams(IF HasStream(streams, Head(new).meta_id, Head(new).url)
                     THEN streams ELSE Append(streams, Head(new)),
                     Tail(new))

RECURSIVE AddTvMetadata(_, _)
AddTvMetadata(db, batch) ==
  IF batch = <<>> THEN db
  ELSE LET m == Head(batch)
       IN AddTvMetadata(
            [channels |-> IF HasChannel(db.channels, m.id) THEN db.channels
                          ELSE Append(db.channels, [id |-> m.id, title |-> m.title]),
             streams |-> UpsertStreams(db.streams, m.streams)],
            Tail(batch))


\* ------------------------------------------------- the end-of-run pipeline
\* the commands queued for one event of event_list
RECURSIVE GenreCommands(_, _, _)
GenreCommands(genres, key, score) ==
  IF genres = <<>> THEN <<>>
  ELSE <<ZaddCommand(Some(Head(genres)), key, score)>>
       \o GenreCommands(Tail(genres), key, score)

\* the index entries queued outside the TTL guard
EventCommandsUnguarded(event, t) ==
  LET event_key == EventKey(event.id)
      ttl == Ttl(event.event_start_timestamp, t)
  IN (IF ttl > 0 THEN <<SetCommand(event_key, event, ttl)>> ELSE <<>>)
     \o <<ZaddCommand(None, event_key, event.event_start_timestamp)>>
     \o GenreCommands(event.genres, event_key, event.event_start_timestamp)

\* one turn of the loop over event_list in run()
EventCommands(event, t) ==
  LET event_key == EventKey(event.id)
      ttl == Ttl(event.event_start_timestamp, t)
  IN IF ttl > 0
     THEN <<SetCommand(event_key, event, ttl),
            ZaddCommand(None, event_key, event.event_start_timestamp)>>
          \o GenreCommands(event.genres, event_key, event.event_start_timestamp)
     ELSE <<>>

RECURSIVE PipelineCommands(_, _)
PipelineCommands(events, t) ==
  IF events = <<>> THEN <<>>
  ELSE EventCommands(Head(events), t) \o PipelineCommands(Tail(events), t)

\* ---------------------------------------------------------------- actions
InitCorpora ==
  { [channels |-> <<>>, streams |-> <<>>],
    [channels |-> <<[id |-> ChannelId(ChanA), title |-> ChanA],
                    [id |-> ChannelId(ChanB), title |-> ChanB]>>,
     streams |-> <<TVStream(ChannelId(ChanA), ChanA, "u1"),
                   TVStream(ChannelId(ChanB), ChanB, "u2")>>] }

NoCounters == [skipped |-> 0, added |-> 0, merged |-> 0]

Init ==
  /\ \E db \in InitCorpora : dbChannels = db.channels /\ dbStreams = db.streams
  /\ cache = <<>>
  /\ zall = <<>>
  /\ zgenre = <<>>
  /\ now = EpochBase * TicksPerSecond + 2
  /\ pc = "idle"
  /\ runs = 0
  /\ source_urls = <<>>
  /\ fetched = <<>>
  /\ content = <<>>
  /\ queue = <<>>
  /\ idx = 1
  /\ existing_tv_channels_in_db = <<>>
  /\ existing_stream_urls = {}
  /\ channel_batch = <<>>
  /\ event_list = <<>>
  /\ unique_channels_in_group = {}
  /\ new_streams_batch = <<>>
  /\ counters = NoCounters
  /\ last = NoLast
  /\ pipeline = <<>>
  /\ flush_time = None
  /\ imported = {}
  /\ log = <<>>
  /\ previous = None
  /\ parked = None
  /\ status = "none"

\* time passes between two runs
Tick ==
  /\ pc \in {"idle", "done"}
  /\ \E t \in Instants : t > now /\ now' = t
  /\ previous' = None
  /\ UNCHANGED <<storeVars, cacheVars, pc, runs, inputVars, idx, snapshotVars,
                 batchVars, last, log, pipeline, flush_time, imported, parked,
                 status>>

\* the state a parser starts run() with
BeginRun ==
  /\ \E cfg \in SourceConfigs : source_urls' = cfg
  /\ pc' = "fetch"
  /\ fetched' = <<>>
  /\ content' = <<>>
  /\ queue' = <<>>
  /\ idx' = 1
  /\ existing_tv_channels_in_db' = <<>>
  /\ existing_stream_urls' = {}
  /\ channel_batch' = <<>>
  /\ event_list' = <<>>
  /\ unique_channels_in_group' = {}
  /\ new_streams_batch' = <<>>
  /\ counters' = NoCounters
  /\ last' = NoLast
  /\ log' = <<>>
  /\ pipeline' = <<>>
  /\ flush_time' = None
  /\ status' = "running"

\* CombinedPlaylistParser(source_urls).run() is called
StartRun ==
  /\ pc \in {"idle", "done"}
  /\ runs < MaxRuns
  /\ runs' = runs + 1
  /\ BeginRun
  /\ UNCHANGED <<storeVars, cacheVars, now, imported, previous, parked>>

\* one turn of the loop over self.source_urls
FetchSource ==
  /\ pc = "fetch"
  /\ Len(fetched) < Len(source_urls)
  /\ LET url == source_urls[Len(fetched) + 1]
     IN \/ \E body \in Bodies(url) :
             /\ content' = content \o TagBody(body, DefaultGroupName(url))
             /\ fetched' = Append(fetched, [result |-> "ok", body |-> body])
             /\ UNCHANGED <<pc, status>>
        \/ \* httpx.RequestError: logged, continue
           /\ fetched' = Append(fetched, [result |-> "RequestError", body |-> <<>>])
           /\ content' = AfterRequestError(content)
           /\ UNCHANGED <<pc, status>>
        \/ \* raise_for_status(): httpx.HTTPStatusError is no RequestError
           /\ fetched' = Append(fetched, [result |-> "HTTPStatusError", body |-> <<>>])
           /\ Raise
           /\ UNCHANGED content
  /\ UNCHANGED <<storeVars, cacheVars, now, runs, source_urls, queue, idx,
                 snapshotVars, batchVars, last, log, pipeline, flush_time, imported, previous, parked>>

\* the content check, playlist.loads and the grouping
Parse ==
  /\ pc = "fetch"
  /\ Len(fetched) = Len(source_urls)
  /\ IF ContentIsEmpty(content)
     THEN /\ pc' = "done"
          /\ status' = "aborted"
          /\ UNCHANGED queue
     ELSE /\ queue' = RunOrder(content)
          /\ pc' = "load"
          /\ UNCHANGED status
  /\ UNCHANGED <<storeVars, cacheVars, now, runs, source_urls, fetched, content, idx,
                 snapshotVars, batchVars, last, log, pipeline, flush_time, imported, previous, parked>>

\* the two queries that snapshot the existing corpus
LoadCorpus ==
  /\ pc = "load"
  /\ existing_tv_channels_in_db' = Projection(dbChannels)
  /\ existing_stream_urls' = StoredUrlsAmong(dbStreams, PlaylistStreamUrls(queue))
  /\ pc' = IF queue = <<>> THEN "streams" ELSE "loop"
  /\ UNCHANGED <<storeVars, cacheVars, now, runs, inputVars, idx, batchVars, last, log,
                 pipeline, flush_time, imported, previous, parked, status>>

\* a loop that is left after its first turn
AfterRecordEarly == "streams"

\* where the run goes after a turn of the loop: to the commits once the
\* last record is done
AfterRecord == IF idx + 1 > Len(queue) THEN "streams" ELSE "loop"

\* one turn of the run loop
ProcessRecord ==
  /\ pc = "loop"
  /\ idx' = idx + 1
  /\ \E fault \in BOOLEAN :
       LET channel == queue[idx]
       IN IF channel.url = ""
          THEN /\ ~fault
               /\ last' = Outcome("none", "nourl", Strip(channel.name), "",
                                  None, None, None)
               /\ pc' = AfterRecord
               /\ UNCHANGED <<cacheVars, batchVars, status>>
          ELSE IF IsEventName(Strip(channel.name))
          THEN /\ ProcessEvent(channel, fault)
               /\ pc' = AfterRecord
               /\ UNCHANGED <<channel_batch, unique_channels_in_group,
                              new_streams_batch, counters, status>>
          ELSE /\ ProcessRegularChannel(channel, fault, AfterRecord)
               /\ UNCHANGED <<cacheVars, event_list>>
  /\ log' = Append(log, last')
  /\ UNCHANGED <<storeVars, now, runs, inputVars, snapshotVars, pipeline, flush_time,
                 imported, previous, parked>>

\* if new_streams_batch: await TVStreams.insert_many(new_streams_batch)
CommitStreams ==
  /\ pc = "streams"
  /\ dbStreams' = IF new_streams_batch # <<>>
                  THEN InsertMany(dbStreams, new_streams_batch) ELSE dbStreams
  /\ pc' = "channels"
  /\ UNCHANGED <<dbChannels, cacheVars, now, runs, inputVars, idx, snapshotVars,
                 batchVars, last, log, pipeline, flush_time, imported, previous, parked, status>>

\* if channel_batch: await add_tv_metadata(batch=channel_batch, ...)
CommitChannels ==
  /\ pc = "channels"
  /\ LET db == IF channel_batch # <<>>
               THEN AddTvMetadata([channels |-> dbChannels, streams |-> dbStreams],
                                  channel_batch)
               ELSE [channels |-> dbChannels, streams |-> dbStreams]
     IN /\ dbChannels' = db.channels
        /\ dbStreams' = db.streams
  /\ pc' = "events"
  /\ UNCHANGED <<cacheVars, now, runs, inputVars, idx, snapshotVars, batchVars, last, log,
                 pipeline, flush_time, imported, previous, parked, status>>

\* if event_list: the pipeline is filled and executed; the run ends
CommitEvents ==
  /\ pc = "events"
  /\ LET cs == IF event_list # <<>> THEN PipelineCommands(event_list, now) ELSE <<>>
         st == ApplyCommands(cs, [cache |-> cache, zall |-> zall, zgenre |-> zgenre], now)
     IN /\ pipeline' = cs
        /\ flush_time' = Some(now)
        /\ imported' = imported \cup unique_channels_in_group
        /\ previous' = IF runs = 1 /\ \A i \in 1..Len(log) : log[i].outcome # "error"
                       THEN Some(content) ELSE None
        /\ cache' = st.cache
        /\ zall' = st.zall
        /\ zgenre' = st.zgenre
  /\ pc' = "done"
  /\ status' = "finished"
  /\ UNCHANGED <<storeVars, now, runs, inputVars, idx, snapshotVars, batchVars, last,
                 log, parked>>

Next ==
  \/ Tick
  \/ StartRun
  \/ FetchSource
  \/ Parse
  \/ LoadCorpus
  \/ ProcessRecord
  \/ CommitStreams
  \/ CommitChannels
  \/ CommitEvents

Spec == Init /\ [][Next]_vars

\* ----------------------------------------------------- overlapping runs
\* Two invocations of run() on one event loop (the scheduled job and a
\* manual one): a run gives way to the other only where it awaits I/O.
Locals ==
  [pc |-> pc, source_urls |-> source_urls, fetched |-> fetched, content |-> content,
   queue |-> queue, idx |-> idx,
   existing_tv_channels_in_db |-> existing_tv_channels_in_db,
   existing_stream_urls |-> existing_stream_urls,
   channel_batch |-> channel_batch, event_list |-> event_list,
   unique_channels_in_group |-> unique_channels_in_group,
   new_streams_batch |-> new_streams_batch, counters |-> counters,
   last |-> last, log |-> log, pipeline |-> pipeline, flush_time |-> flush_time,
   status |-> status]

\* the run stands at an await: client.get, the two store queries, the cache
\* calls of an event record, insert_many, add_tv_metadata, pipeline.execute
Suspended ==
  \/ pc = "fetch" /\ Len(fetched) < Len(source_urls)
  \/ pc = "load"
  \/ /\ pc = "loop"
     /\ queue[idx].url # ""
     /\ IsEventName(Strip(queue[idx].name))
  \/ pc = "streams" /\ new_streams_batch # <<>>
  \/ pc = "channels" /\ channel_batch # <<>>
  \/ pc = "events" /\ event_list # <<>>

\* a second run() is called while the first one waits
StartOverlappingRun ==
  /\ Suspended
  /\ parked = None
  /\ runs < MaxRuns
  /\ runs' = runs + 1
  /\ parked' = Some(Locals)
  /\ BeginRun
  /\ UNCHANGED <<storeVars, cacheVars, now, imported, previous>>

\* the event loop goes on with the other run
SwitchRun ==
  /\ parked # None
  /\ parked[1].pc # "done"
  /\ Suspended \/ pc = "done"
  /\ parked' = Some(Locals)
  /\ pc' = parked[1].pc
  /\ source_urls' = parked[1].source_urls
  /\ fetched' = parked[1].fetched
  /\ content' = parked[1].content
  /\ queue' = parked[1].queue
  /\ idx' = parked[1].idx
  /\ existing_tv_channels_in_db' = parked[1].existing_tv_channels_in_db
  /\ existing_stream_urls' = parked[1].existing_stream_urls
  /\ channel_batch' = parked[1].channel_batch
  /\ event_list' = parked[1].event_list
  /\ unique_channels_in_group' = parked[1].unique_channels_in_group
  /\ new_streams_batch' = parked[1].new_streams_batch
  /\ counters' = parked[1].counters
  /\ last' = parked[1].last
  /\ log' = parked[1].log
  /\ pipeline' = parked[1].pipeline
  /\ flush_time' = parked[1].flush_time
  /\ status' = parked[1].status
  /\ UNCHANGED <<storeVars, cacheVars, now, runs, imported, previous>>

\* the first of the two runs
StartFirstRun == pc = "idle" /\ StartRun

OverlapNext ==
  \/ StartFirstRun
  \/ StartOverlappingRun
  \/ SwitchRun
  \/ FetchSource
  \/ Parse
  \/ LoadCorpus
  \/ ProcessRecord
  \/ CommitStreams
  \/ CommitChannels
  \/ CommitEvents

OverlapSpec == Init /\ [][OverlapNext]_vars

\* ================================================================ claims
\* helpers of the properties below
IsSet(c) == c.op = "set"
IsZadd(c) == c.op = "zadd"
PipelineTouches(key) == \E i \in 1..Len(pipeline) : pipeline[i].key = key

\* the TTL computed at tick t for an event starting at ts is not positive:
\* less than one whole second is left of ts + 24 h
TtlNotPositive(ts, t) == (ts + 86400) * TicksPerSecond - t < TicksPerSecond

\* the record the run loop stands at, and what the run loop takes it for
AtRecord == pc = "loop" /\ idx <= Len(queue)
AtEventRecord ==
  AtRecord /\ queue[idx].url # "" /\ IsEventName(Strip(queue[idx].name))
AtChannelRecord ==
  AtRecord /\ queue[idx].url # "" /\ ~IsEventName(Strip(queue[idx].name))

\* C1: on both write paths (the end-of-run pipeline and the rewrite after a
\* merge) no SET for an event carries a TTL <= 0, and a new event that
\* started 24 hours or more before the flush has no SET in the pipeline.
C1_Claim ==
  /\ (last.kind = "event" /\ last.set # None) => last.set[1] > 0
  /\ \A i \in 1..Len(pipeline) : IsSet(pipeline[i]) => pipeline[i].ttl > 0
  /\ flush_time # None =>
       \A i \in 1..Len(event_list) :
         (event_list[i].event_start_timestamp + 86400) * TicksPerSecond
             <= flush_time[1]
           => ~PipelineTouches(EventKey(event_list[i].id))

\* C2: every key a flush adds to "events:all" or to a genre index is set by
\* the same flush with a TTL > 0, and an event whose TTL at the flush is <= 0
\* has no command in it: no cache entry, no index entry.
C2_IndexedOnlyWithEntry ==
  /\ \A i \in 1..Len(pipeline) :
       IsZadd(pipeline[i]) =>
         \E j \in 1..Len(pipeline) :
           /\ IsSet(pipeline[j])
           /\ pipeline[j].key = pipeline[i].key
           /\ pipeline[j].ttl > 0
  /\ flush_time # None =>
       \A i \in 1..Len(event_list) :
         TtlNotPositive(event_list[i].event_start_timestamp, flush_time[1])
           => ~PipelineTouches(EventKey(event_list[i].id))
  /\ flush_time # None =>
       \A i \in 1..Len(pipeline) :
         IsZadd(pipeline[i]) =>
           /\ pipeline[i].key \in DOMAIN cache
           /\ cache[pipeline[i].key].exp > flush_time[1]

\* a flush that writes one event with its index entries and drops another
\* whose TTL is 0
C2_Witness ==
  /\ pc = "done"
  /\ flush_time # None
  /\ \E i \in 1..Len(pipeline) : IsZadd(pipeline[i]) /\ pipeline[i].index # None
  /\ \E i \in 1..Len(event_list) :
       /\ TtlNotPositive(event_list[i].event_start_timestamp, flush_time[1])
       /\ EventKey(event_list[i].id) \notin DOMAIN zall

\* the cached events that are alive, whose title has a ratio of at least 90
\* with raw_name and whose index score lies in [lo, hi]
LiveMatches(raw_name, lo, hi) ==
  {k \in DOMAIN zall :
     /\ lo <= zall[k] /\ zall[k] <= hi
     /\ k \in DOMAIN cache /\ now < cache[k].exp
     /\ FuzzRatio(raw_name, cache[k].value.title) >= 90}

\* the event path went through its window query and its loop over the keys
EventDecided(l) ==
  /\ l.kind = "event"
  /\ \/ l.outcome \in {"staged", "merged", "duplicate"}
     \/ l.outcome = "error" /\ l.key # None

C3_Step ==
  (AtEventRecord /\ EventDecided(last')) =>
    LET raw_name == Strip(queue[idx].name)
        T == SearchDates(raw_name)[1]
        candidates == LiveMatches(raw_name, T - 3600, T + 3600)
    IN IF candidates = {}
       THEN /\ last'.outcome = "staged"
            /\ Len(event_list') = Len(event_list) + 1
            /\ event_list'[Len(event_list')].title = raw_name
            /\ event_list'[Len(event_list')].event_start_timestamp = T
       ELSE /\ last'.outcome # "staged"
            /\ last'.key[1] \in candidates
            /\ event_list' = event_list

\* C3: an event record starting at T is matched with a cached event iff a
\* live event with title ratio >= 90 has its index score in the closed
\* interval [T - 3600, T + 3600]; the event matched lies in that interval, and
\* with no such event (one at T + 3601 or later does not count) the record
\* is staged as a new event.
C3_ClosedWindow == [][C3_Step]_vars

\* a record merged into the event exactly 3600 s after it while a live event
\* with a matching title 3601 s after it is left alone
C3_Witness ==
  /\ last.kind = "event"
  /\ last.outcome = "merged"
  /\ zall[last.key[1]] = last.start[1] + 3600
  /\ \E k \in DOMAIN zall :
       /\ zall[k] = last.start[1] + 3601
       /\ k \in DOMAIN cache /\ now < cache[k].exp
       /\ FuzzRatio(last.name, cache[k].value.title) >= 90
       /\ ~StreamExists(cache[k].value.streams, last.url)

\* the snapshot channels whose title has a ratio of at least 90 with a name
SimilarChannels(channel_name) ==
  {i \in 1..Len(existing_tv_channels_in_db) :
     FuzzRatio(channel_name, existing_tv_channels_in_db[i].title) >= 90}

\* the run loop stands at a channel record that passes the length check and
\* the in-batch dedup
AtFreshChannelRecord ==
  /\ AtChannelRecord
  /\ Len(ChannelName(queue[idx])) >= 2
  /\ <<ChannelName(queue[idx]), queue[idx].url>> \notin unique_channels_in_group

C4_Step ==
  (AtFreshChannelRecord /\ last'.outcome # "raised") =>
    LET channel_name == ChannelName(queue[idx])
        similar == SimilarChannels(channel_name)
        n == Len(channel_batch)
    IN IF similar # {}
       THEN LET first == CHOOSE i \in similar : \A j \in similar : i <= j
            IN /\ channel_batch' = channel_batch
               /\ last'.outcome \in {"merged", "duplicate"}
               /\ last'.outcome = "merged" =>
                    /\ Len(new_streams_batch') = Len(new_streams_batch) + 1
                    /\ new_streams_batch'[Len(new_streams_batch')].meta_id =
                         existing_tv_channels_in_db[first].id
               /\ last'.outcome = "duplicate" => new_streams_batch' = new_streams_batch
       ELSE /\ Len(channel_batch') = n + 1
            /\ SubSeq(channel_batch', 1, n) = channel_batch
            /\ channel_batch'[n + 1].title = channel_name
            /\ Len(channel_batch'[n + 1].streams) = 1
            /\ channel_batch'[n + 1].streams[1].url = queue[idx].url
            /\ new_streams_batch' = new_streams_batch

\* C4: a channel record that passes the length check and the in-batch dedup
\* and is processed to the end stages no new Channel when some snapshot
\* channel has ratio >= 90 with its normalized name (it merges into, or is
\* skipped against, the first such channel), and stages exactly one new
\* Channel with exactly one stream when every snapshot channel is below 90.
C4_ThresholdInclusive == [][C4_Step]_vars

\* a record merged into a channel whose title has ratio exactly 90 with it,
\* no snapshot channel being closer
C4_Witness ==
  /\ last.kind = "channel"
  /\ last.outcome = "merged"
  /\ \E i \in 1..Len(existing_tv_channels_in_db) :
       FuzzRatio(last.name, existing_tv_channels_in_db[i].title) = 90
  /\ \A i \in 1..Len(existing_tv_channels_in_db) :
       FuzzRatio(last.name, existing_tv_channels_in_db[i].title) <= 90

\* every Stream staged so far in the run: the merged ones and those of the
\* new Channels
RECURSIVE StreamsOf(_)
StreamsOf(batch) ==
  IF batch = <<>> THEN <<>> ELSE Head(batch).streams \o StreamsOf(Tail(batch))
StagedStreams(streams, batch) == streams \o StreamsOf(batch)
StagedOnce(staged) ==
  \A i, j \in 1..Len(staged) :
    (staged[i].name = staged[j].name /\ staged[i].url = staged[j].url) => i = j

\* an earlier record of the run is a channel record with the normalized name
\* and the URL of the record the loop stands at
EarlierOccurrence ==
  \E j \in 1..(idx - 1) :
    /\ ~IsEventName(Strip(queue[j].name))
    /\ ChannelName(queue[j]) = ChannelName(queue[idx])
    /\ queue[j].url = queue[idx].url

StagesNothingAndCounts ==
  /\ channel_batch' = channel_batch
  /\ new_streams_batch' = new_streams_batch
  /\ counters'.skipped = counters.skipped + 1
  /\ counters'.added = counters.added
  /\ counters'.merged = counters.merged

C5_Step ==
  /\ StagedOnce(StagedStreams(new_streams_batch', channel_batch'))
  /\ (AtChannelRecord /\ Len(ChannelName(queue[idx])) >= 2 /\ EarlierOccurrence)
       => StagesNothingAndCounts

\* C5 as amended: within one run at most one Stream is staged per
\* (normalized name, URL), and every later occurrence of a pair that reaches
\* the in-batch dedup (non-empty URL, normalized name of two characters or
\* more) stages no Channel and no Stream and adds exactly one to the
\* skipped-duplicate counter, whatever its group-title or source.
C5_InBatchDedup == [][C5_Step]_vars

\* a pair met a second time under another group-title and a differently
\* spaced raw name
C5_Witness ==
  /\ last.kind = "channel"
  /\ last.outcome = "seen"
  /\ counters.skipped >= 1
  /\ \E i, j \in 1..(idx - 1) :
       /\ i < j
       /\ j = idx - 1
       /\ ChannelName(queue[i]) = last.name /\ ChannelName(queue[j]) = last.name
       /\ queue[i].url = last.url /\ queue[j].url = last.url
       /\ queue[i].group # queue[j].group
       /\ queue[i].name # queue[j].name

C5_OriginalStep ==
  /\ StagedOnce(StagedStreams(new_streams_batch', channel_batch'))
  /\ (AtRecord /\ ~IsEventName(Strip(queue[idx].name)) /\ EarlierOccurrence)
       => StagesNothingAndCounts

\* C5 as stated: every later occurrence of a (normalized name, URL) pair
\* among the channel records of a run stages nothing and adds exactly one to
\* the skipped-duplicate counter.
C5_Original == [][C5_OriginalStep]_vars

\* the (normalized name, URL) pair of the record the loop stands at was
\* imported by an earlier run that committed
AtImportedPair ==
  /\ AtChannelRecord
  /\ Len(ChannelName(queue[idx])) >= 2
  /\ <<ChannelName(queue[idx]), queue[idx].url>> \in imported

C6_Step ==
  /\ AtImportedPair =>
       /\ channel_batch' = channel_batch
       /\ new_streams_batch' = new_streams_batch
  /\ \A i \in 1..Len(channel_batch') :
       /\ channel_batch'[i].id = ChannelId(channel_batch'[i].title)
       /\ \A j \in 1..Len(channel_batch') :
            channel_batch'[i].title = channel_batch'[j].title
              => channel_batch'[i].id = channel_batch'[j].id
  /\ \A i, j \in 1..Len(dbChannels') :
       dbChannels'[i].id = dbChannels'[j].id => i = j

\* C6: the id of a Channel is determined by its normalized name, and a run
\* that meets a (name, URL) pair an earlier committed run has imported
\* stages no new Channel and no new Stream for it: the store keeps one
\* Channel per id.
C6_Convergence == [][C6_Step]_vars

\* the second run skips a pair the first run created the Channel for
C6_Witness ==
  /\ runs = 2
  /\ last.kind = "channel"
  /\ last.outcome = "duplicate"
  /\ <<last.name, last.url>> \in imported
  /\ HasStream(dbStreams, ChannelId(last.name), last.url)
  /\ channel_batch = <<>>
  /\ new_streams_batch = <<>>

LiveKeys(c, t) == {k \in DOMAIN c : t < c[k].exp}

C7_Step ==
  (AtEventRecord /\ EventDecided(last') /\ last'.key # None) =>
    LET k == last'.key[1]
        before == cache[k].value
        after == cache'[k].value
    IN ~StreamExists(before.streams, queue[idx].url) =>
         /\ Cardinality(LiveKeys(cache', now')) = Cardinality(LiveKeys(cache, now))
         /\ zall' = zall
         /\ zgenre' = zgenre
         /\ event_list' = event_list
         /\ Len(after.streams) = Len(before.streams) + 1
         /\ SubSeq(after.streams, 1, Len(before.streams)) = before.streams
         /\ after.streams[Len(after.streams)].url = queue[idx].url
         /\ after.id = before.id
         /\ after.title = before.title
         /\ after.genres = before.genres
         /\ after.event_start_timestamp = before.event_start_timestamp

\* C7: when an event record matches a live cached event inside the window
\* whose streams do not hold its URL, the number of cached events and the
\* indexes stay as they are, no event is staged, the matched event gains
\* exactly one stream carrying that URL, and its id, title, genres and start
\* time stay as they are.
C7_Claim == [][C7_Step]_vars

\* C8: a failure while one record is processed does not end the run: once
\* the run loop has taken up a record, the run ends only with every record
\* taken up and the end-of-run commit done.
C8_Claim ==
  (pc = "done" /\ idx > 1) => (idx = Len(queue) + 1 /\ status = "finished")

\* what the sources that answered contribute, in the configured order
RECURSIVE CombinedOf(_, _)
CombinedOf(results, urls) ==
  IF results = <<>> THEN <<>>
  ELSE (IF Head(results).result = "ok"
        THEN TagBody(Head(results).body, DefaultGroupName(Head(urls)))
        ELSE <<>>)
       \o CombinedOf(Tail(results), Tail(urls))

OnlyNetworkFailures ==
  \A i \in 1..Len(fetched) : fetched[i].result \in {"ok", "RequestError"}

Persisted ==
  /\ \A i \in 1..Len(new_streams_batch) :
       HasStream(dbStreams, new_streams_batch[i].meta_id, new_streams_batch[i].url)
  /\ \A i \in 1..Len(channel_batch) : HasChannel(dbChannels, channel_batch[i].id)
  /\ \A i \in 1..Len(event_list) :
       ~TtlNotPositive(event_list[i].event_start_timestamp, flush_time[1])
         => EventKey(event_list[i].id) \in DOMAIN cache

\* C9: with any of the sources failing by a network error or a timeout, the
\* combined playlist is made of the entries of the sources that answered, in
\* the configured order; no such failure makes the run raise, and a run that
\* no record cuts short takes up every one of these entries and persists
\* what it staged.
C9_FailedSourcesSkipped ==
  /\ (runs > 0 /\ OnlyNetworkFailures) =>
       /\ content = CombinedOf(fetched, source_urls)
       /\ pc = "fetch" => status = "running"
       /\ pc \notin {"fetch", "load", "idle"} => Len(queue) = Len(content)
  /\ (pc = "done" /\ OnlyNetworkFailures /\ last.outcome # "raised") =>
       /\ status = "finished"
       /\ idx = Len(queue) + 1
       /\ Persisted

\* the first source fails, the entries of the second are processed and
\* persisted
C9_Witness ==
  /\ pc = "done"
  /\ status = "finished"
  /\ Len(fetched) = 2
  /\ fetched[1].result = "RequestError"
  /\ fetched[2].result = "ok"
  /\ Len(queue) = Len(fetched[2].body)
  /\ channel_batch # <<>>
  /\ HasChannel(dbChannels, channel_batch[1].id)

\* C10: no Channel holds two streams with the same URL, the stored streams
\* and those the runs inserted counted together.
C10_Claim ==
  \A i, j \in 1..Len(dbStreams) :
    (dbStreams[i].meta_id = dbStreams[j].meta_id /\ dbStreams[i].url = dbStreams[j].url)
      => i = j

\* a step that writes to the event cache or to one of its indexes
CacheWritten == cache' # cache \/ zall' # zall \/ zgenre' # zgenre

\* C11: every write of a run to the event cache, for a new event and for an
\* event a stream was merged into, belongs to the one pipeline flush after
\* the run loop; no step of the run loop writes to the cache.
C11_Claim == [][CacheWritten => (pc = "events" /\ pc' = "done")]_vars

\* the run under way has the input of the run that finished before it, with
\* no time passed in between
RetryUnderWay ==
  /\ previous # None
  /\ pc \in {"loop", "streams", "channels", "events"}
  /\ content = previous[1]

C12_Step ==
  RetryUnderWay =>
    /\ channel_batch' = <<>>
    /\ new_streams_batch' = <<>>
    /\ ~CacheWritten
    /\ dbChannels' = dbChannels
    /\ dbStreams' = dbStreams

\* C12: a run over the input of the run that completed just before it, with
\* no cache expiry in between, stages no new Channel, inserts no new Stream
\* and writes nothing to the event cache: store and cache stay as they are.
C12_Claim == [][C12_Step]_vars

\* the stored streams of one channel with one URL
StoredCopies(meta_id, url) ==
  {k \in 1..Len(dbStreams) : dbStreams[k].meta_id = meta_id /\ dbStreams[k].url = url}

\* both of two overlapping runs have finished
BothFinished ==
  /\ parked # None
  /\ pc = "done" /\ status = "finished"
  /\ parked[1].pc = "done" /\ parked[1].status = "finished"

\* the two runs staged a Stream with the same channel id and URL
StagedByBoth(i, j) ==
  /\ new_streams_batch[i].meta_id = parked[1].new_streams_batch[j].meta_id
  /\ new_streams_batch[i].url = parked[1].new_streams_batch[j].url

\* C13: overlapping runs are not safe against each other. Nothing between
\* the snapshot of a run and its commit looks at what the other run does:
\* whenever both runs staged a Stream with the same (meta_id, URL), the
\* store holds it twice once both have finished.
C13_OverlapDuplicates ==
  BothFinished =>
    \A i \in 1..Len(new_streams_batch) :
      \A j \in 1..Len(parked[1].new_streams_batch) :
        StagedByBoth(i, j) =>
          Cardinality(StoredCopies(new_streams_batch[i].meta_id,
                                   new_streams_batch[i].url)) >= 2

\* two runs that took their snapshots before either committed, each with a
\* record for the same stored channel and a URL new to it: both inserted it
C13_Witness ==
  /\ BothFinished
  /\ \E i \in 1..Len(new_streams_batch) :
       \E j \in 1..Len(parked[1].new_streams_batch) :
         /\ StagedByBoth(i, j)
         /\ new_streams_batch[i].name = parked[1].new_streams_batch[j].name
         /\ Cardinality(StoredCopies(new_streams_batch[i].meta_id,
                                     new_streams_batch[i].url)) = 2

\* a run of a parser that was configured with no source URL
EmptySourceRun == runs > 0 /\ source_urls = <<>>

C14_Step ==
  EmptySourceRun =>
    /\ UNCHANGED <<storeVars, cacheVars>>
    /\ (source_urls' = <<>> =>
          /\ status' \notin {"raised", "aborted"}
          /\ new_streams_batch' = <<>>
          /\ channel_batch' = <<>>
          /\ event_list' = <<>>
          /\ pipeline' = <<>>)

\* C14: a run with an empty list of source URLs is a no-op and not an error:
\* no step of it raises or ends in the error log of the content check, none
\* stages anything, and none writes to the store, the cache or its indexes.
C14_EmptySourcesNoOp == [][C14_Step]_vars

\* such a run went through all of run() and finished
C14_Witness ==
  /\ EmptySourceRun
  /\ pc = "done"
  /\ status = "finished"
  /\ queue = <<>>

\* every configured source failed with a network error and the fetch loop
\* is over: the combined content carries no entry
TotalFailure ==
  /\ runs > 0
  /\ source_urls # <<>>
  /\ Len(fetched) = Len(source_urls)
  /\ \A i \in 1..Len(fetched) : fetched[i].result = "RequestError"
  /\ content = <<>>

\* C15: on total failure the run aborts at the content check: once past the
\* fetch loop it has ended with the error log, it never stands at the load
\* of the existing corpus or beyond, and nothing was written.
C15_Claim ==
  (TotalFailure /\ pc # "fetch") =>
    /\ pc = "done"
    /\ status = "aborted"
    /\ pipeline = <<>>

\* a channel record that gets past the checks of its name and of the pairs
\* seen in this run, and whose name matches a channel of the snapshot
MatchedChannel ==
  FirstMatchingChannel(ChannelName(queue[idx]), existing_tv_channels_in_db, 1)
AtMatchedChannelRecord == AtFreshChannelRecord /\ MatchedChannel # 0

C16_Step ==
  (AtMatchedChannelRecord /\ last'.outcome # "raised") =>
    LET C == existing_tv_channels_in_db[MatchedChannel]
        url == queue[idx].url
        belongs == \E k \in 1..Len(dbStreams) :
                     dbStreams[k].meta_id = C.id /\ dbStreams[k].url = url
    IN IF belongs
       THEN /\ last'.outcome = "duplicate"
            /\ new_streams_batch' = new_streams_batch
            /\ counters' = Bump(counters, "skipped")
       ELSE /\ new_streams_batch' =
                 Append(new_streams_batch, TVStream(C.id, ChannelName(queue[idx]), url))
            /\ counters' = Bump(counters, "merged")

\* C16: for a record matched to the stored channel C, the record is skipped
\* as a duplicate exactly when its URL is the URL of a stream that belongs
\* to C; a URL that is only the stream of another channel gets a new Stream
\* with meta_id = C.id staged, and the merged counter goes up by one.
C16_Claim == [][C16_Step]_vars

\* two entries of the staged batch of new Channels with one id
SameIdStaged(i, j) ==
  /\ i < j
  /\ channel_batch[i].id = channel_batch[j].id

\* C17 as stated: the staged batch of new Channels never holds two entries
\* with the same channel id.
C17_Original ==
  \A i, j \in 1..Len(channel_batch) : ~SameIdStaged(i, j)

\* the channel upsert of this run has been done
ChannelsCommitted == pc = "events" \/ (pc = "done" /\ status = "finished")

\* C17 (amended): every staged Channel has the id of its title and one
\* stream of its own; staged entries with one id have one title and
\* different URLs (one entry per distinct pair of name and URL, not one per
\* name), and once the batch is upserted the store holds one Channel with
\* that id and each staged stream.
C17_OneChannelPerId ==
  /\ \A i \in 1..Len(channel_batch) :
       /\ channel_batch[i].id = ChannelId(channel_batch[i].title)
       /\ Len(channel_batch[i].streams) = 1
       /\ channel_batch[i].streams[1].meta_id = channel_batch[i].id
  /\ \A i, j \in 1..Len(channel_batch) :
       SameIdStaged(i, j) =>
         /\ channel_batch[i].title = channel_batch[j].title
         /\ channel_batch[i].streams[1].url # channel_batch[j].streams[1].url
  /\ ChannelsCommitted =>
       \A i \in 1..Len(channel_batch) :
         /\ Cardinality({k \in 1..Len(dbChannels) :
                           dbChannels[k].id = channel_batch[i].id}) = 1
         /\ HasStream(dbStreams, channel_batch[i].id, channel_batch[i].streams[1].url)

\* two records with one name and two URLs were staged as two Channels, and
\* the store holds the one Channel with both streams
C17_Witness ==
  /\ ChannelsCommitted
  /\ \E i, j \in 1..Len(channel_batch) :
       /\ SameIdStaged(i, j)
       /\ Cardinality({k \in 1..Len(dbStreams) :
                         dbStreams[k].meta_id = channel_batch[i].id}) = 2

\* two staged events whose titles match and whose starts lie within the
\* window of each other
StagedTwice(i, j) ==
  /\ i < j
  /\ FuzzRatio(event_list[j].title, event_list[i].title) >= FUZZY_MATCH_THRESHOLD
  /\ event_list[j].event_start_timestamp - event_list[i].event_start_timestamp
       \in (0 - TIME_WINDOW_SECONDS)..TIME_WINDOW_SECONDS

\* C18: within one run, of two event records with titles of ratio 90 or more
\* and starts at most 3600 seconds apart the second merges into the first:
\* the staged event list never holds an Event for each of them.
C18_Claim ==
  \A i, j \in 1..Len(event_list) : ~StagedTwice(i, j)

\* the run has flushed its pipeline and the clock has not moved since
JustFlushed == pc = "done" /\ status = "finished" /\ flush_time = Some(now)

\* an event record that was processed without error, with a positive TTL
\* for its event at the flush
AcceptedEventRecord(l) ==
  /\ l.kind = "event"
  /\ l.outcome \in {"staged", "merged", "duplicate"}
  /\ l.outcome = "staged" => ~TtlNotPositive(l.start[1], flush_time[1])

\* C19: no accepted event stream is lost: after the flush of a run, the URL
\* of every event record that the run processed without error and whose
\* event has a positive TTL is among the streams of a live cached event.
C19_Claim ==
  JustFlushed =>
    \A i \in 1..Len(log) :
      AcceptedEventRecord(log[i]) =>
        \E k \in LiveKeys(cache, now) :
          \E n \in 1..Len(cache[k].value.streams) :
            cache[k].value.streams[n].url = log[i].url

\* the loop of the event record over the keys of the window stopped at a
\* live cached event with a matching title (last'.key), and the streams of
\* that event hold the URL of the record
MatchHoldsUrl ==
  /\ AtEventRecord
  /\ EventDecided(last')
  /\ last'.key # None
  /\ \E n \in 1..Len(cache[last'.key[1]].value.streams) :
       cache[last'.key[1]].value.streams[n].url = queue[idx].url

C20_Step ==
  MatchHoldsUrl =>
    /\ UNCHANGED <<cache, zall, zgenre, event_list>>
    /\ last'.outcome = "duplicate"

\* C20: an event record that matches a live cached event in the window, the
\* streams of which already hold the URL of the record, changes nothing: no
\* write to the cache or an index, nothing staged, the cached event as it was.
C20_DuplicateIsNoOp == [][C20_Step]_vars

\* such a record has just been processed
C20_Witness ==
  /\ last.kind = "event"
  /\ last.outcome = "duplicate"
  /\ last.key # None
  /\ last.key[1] \in DOMAIN cache
  /\ \E n \in 1..Len(cache[last.key[1]].value.streams) :
       cache[last.key[1]].value.streams[n].url = last.url

\* the keys the window query of the record returns although their cache
\* entry is gone: never written, or expired
StaleInWindow ==
  LET T == SearchDates(Strip(queue[idx].name))[1]
  IN {k \in DOMAIN zall :
        /\ T - TIME_WINDOW_SECONDS <= zall[k] /\ zall[k] <= T + TIME_WINDOW_SECONDS
        /\ (k \in DOMAIN cache => cache[k].exp <= now)}

C21_Step ==
  (AtEventRecord /\ EventDecided(last') /\ StaleInWindow # {}) =>
    LET raw_name == Strip(queue[idx].name)
        T == SearchDates(raw_name)[1]
    IN /\ status' # "raised"
       /\ last'.key # None => last'.key[1] \notin StaleInWindow
       /\ \A k \in StaleInWindow \cap DOMAIN cache :
            k \in DOMAIN cache' /\ cache'[k] = cache[k]
       /\ LiveMatches(raw_name, T - TIME_WINDOW_SECONDS, T + TIME_WINDOW_SECONDS) = {}
            => /\ last'.outcome = "staged"
               /\ event_list' = Append(event_list, NewEvent(queue[idx], raw_name, T))
               /\ UNCHANGED <<cache, zall, zgenre>>

\* C21: an index reference whose cache entry has expired is treated as
\* absent: a key of the window whose GET returns nothing is never the event
\* merged into, its entry is not touched, nothing is raised, and with no
\* live candidate that matches the record is staged as a new Event.
C21_StaleTreatedAsAbsent == [][C21_Step]_vars

\* a record has just been staged as a new Event although the index still
\* lists, in its window, an expired event with a matching title
C21_Witness ==
  /\ pc = "loop"
  /\ last.kind = "event"
  /\ last.outcome = "staged"
  /\ \E k \in DOMAIN zall \cap DOMAIN cache :
       /\ cache[k].exp <= now
       /\ last.start[1] - TIME_WINDOW_SECONDS <= zall[k]
       /\ zall[k] <= last.start[1] + TIME_WINDOW_SECONDS
       /\ FuzzRatio(last.name, cache[k].value.title) >= FUZZY_MATCH_THRESHOLD

\* the live candidates of the record the run loop stands at
CandidatesOfRecord ==
  LET raw_name == Strip(queue[idx].name)
      T == SearchDates(raw_name)[1]
  IN LiveMatches(raw_name, T - TIME_WINDOW_SECONDS, T + TIME_WINDOW_SECONDS)

\* the candidate that comes first in the index: lowest score, then bytes
FirstInIndexOrder(M) ==
  CHOOSE k \in M :
    \A o \in M \ {k} :
      zall[k] < zall[o] \/ (zall[k] = zall[o] /\ SeqLess(k[2][2], o[2][2]))

C22_Step ==
  (AtEventRecord /\ EventDecided(last') /\ Cardinality(CandidatesOfRecord) >= 2) =>
    LET first == FirstInIndexOrder(CandidatesOfRecord)
        holds == \E n \in 1..Len(cache[first].value.streams) :
                   cache[first].value.streams[n].url = queue[idx].url
    IN /\ last'.key = Some(first)
       /\ DOMAIN cache' = DOMAIN cache
       /\ \A k \in DOMAIN cache \ {first} : cache'[k] = cache[k]
       /\ holds => cache' = cache
       /\ UNCHANGED <<zall, zgenre, event_list>>

\* C22: with several live candidates of ratio 90 or more in the window the
\* engine commits to the first in index order: no entry but that of the
\* first candidate is changed by the record (so at most one cache write),
\* and when the first already holds the URL nothing is written at all,
\* whatever the later candidates hold.
C22_FirstMatchWins == [][C22_Step]_vars

\* a record was found to be a duplicate of the first of two live candidates,
\* the second of which does not hold its URL
C22_Witness ==
  /\ pc = "loop"
  /\ last.kind = "event"
  /\ last.outcome = "duplicate"
  /\ \E k \in DOMAIN zall \cap DOMAIN cache :
       /\ Some(k) # last.key
       /\ now < cache[k].exp
       /\ zall[last.key[1]] < zall[k]
       /\ zall[k] <= last.start[1] + TIME_WINDOW_SECONDS
       /\ last.start[1] - TIME_WINDOW_SECONDS <= zall[last.key[1]]
       /\ FuzzRatio(last.name, cache[k].value.title) >= FUZZY_MATCH_THRESHOLD
       /\ \A n \in 1..Len(cache[k].value.streams) :
            cache[k].value.streams[n].url # last.url

\* the run loop has just merged the stream of a record into a cached event
JustMerged ==
  /\ pc \notin {"idle", "done"}
  /\ last.kind = "event"
  /\ last.outcome = "merged"

\* C23: the entry rewritten by a merge gets the TTL start + 86400 - now of
\* the start time stored in the cached event, not of the start parsed from
\* the record; and no cached event ever has an expiry instant later than
\* its event_start_timestamp + 86400 seconds.
C23_ExpiryFromStoredStart ==
  /\ \A k \in DOMAIN cache :
       cache[k].exp <= (cache[k].value.event_start_timestamp + DAY_SECONDS) * TicksPerSecond
  /\ JustMerged =>
       LET e == cache[last.key[1]]
           ttl == IntTrunc((e.value.event_start_timestamp + DAY_SECONDS) * TicksPerSecond - now,
                           TicksPerSecond)
       IN /\ last.set = Some(ttl)
          /\ e.exp = now + ttl * TicksPerSecond

\* a record that starts later than the cached event it was merged into
C23_Witness ==
  /\ JustMerged
  /\ last.start[1] > cache[last.key[1]].value.event_start_timestamp

\* no part of the title of the record is a date
NoDateInTitle ==
  \A i \in 1..Len(Strip(queue[idx].name)) : Strip(queue[idx].name)[i] # 11

\* the event pipeline failed for the record before it settled on a cached
\* event: no date, a call that raised, an entry that could not be read
PipelineFailed(l) == l.kind = "event" /\ l.outcome = "error" /\ l.key = None

C24_Step ==
  AtEventRecord =>
    /\ NoDateInTitle => PipelineFailed(last')
    /\ PipelineFailed(last') =>
         /\ UNCHANGED <<cache, zall, zgenre, event_list>>
         /\ status' # "raised"
         /\ pc' \in {"loop", "streams"}

\* C24: when the event pipeline fails for a record (no date can be taken
\* from the title, or the entry of a candidate is malformed) the record is
\* dropped: nothing is staged, no cache entry and no index changes, and the
\* run goes on, also when a live candidate in the window matches the title.
C24_FailedRecordDropped == [][C24_Step]_vars

\* a record was dropped on a failure while the window held a live event
\* with a matching title
C24_Witness ==
  /\ pc = "loop"
  /\ PipelineFailed(last)
  /\ last.start # None
  /\ LiveMatches(last.name, last.start[1] - TIME_WINDOW_SECONDS,
                 last.start[1] + TIME_WINDOW_SECONDS) # {}

\* a source of the run answered with an HTTP error status
SourceAnsweredWithErrorStatus ==
  \E i \in 1..Len(fetched) : fetched[i].result = "HTTPStatusError"

\* C25: a source that answers with an HTTP error status is skipped like any
\* other failed source: the run does not raise, and goes on to ask the
\* sources that are left.
C25_Claim ==
  SourceAnsweredWithErrorStatus =>
    /\ status # "raised"
    /\ pc = "fetch" \/ Len(fetched) = Len(source_urls)

\* how far run() has come
Stage(p) ==
  CASE p = "idle" -> 0
    [] p = "fetch" -> 1
    [] p = "load" -> 2
    [] p = "loop" -> 3
    [] p = "streams" -> 4
    [] p = "channels" -> 5
    [] p = "events" -> 6
    [] OTHER -> 7

AllRecordsProcessed == idx > Len(queue)

C26_Step ==
  /\ dbStreams' # dbStreams =>
       /\ AllRecordsProcessed
       /\ \/ pc = "streams" /\ dbStreams' = dbStreams \o new_streams_batch
          \/ pc = "channels" /\ channel_batch # <<>>
  /\ dbChannels' # dbChannels =>
       AllRecordsProcessed /\ pc = "channels" /\ channel_batch # <<>>
  /\ (pc = "streams" /\ new_streams_batch = <<>>) => UNCHANGED <<dbStreams, dbChannels>>
  /\ (pc = "channels" /\ channel_batch = <<>>) => UNCHANGED <<dbStreams, dbChannels>>
  /\ (pc = "events" /\ event_list = <<>>) => UNCHANGED <<cache, zall, zgenre>>
  /\ pc \in {"streams", "channels", "events"} =>
       /\ AllRecordsProcessed
       /\ runs' = runs
       /\ Stage(pc') = Stage(pc) + 1
  /\ runs' = runs => Stage(pc') >= Stage(pc)

\* C26: the store is written only at the end of a run: once every record
\* has been processed the staged Streams are inserted in one operation,
\* then the staged Channels are upserted in one call, then the event
\* pipeline is flushed; each of the three happens at most once per run, in
\* this order, and is skipped when its batch is empty.
C26_CommitOnceAtEnd == [][C26_Step]_vars

\* a run that inserted its staged Streams, had no Channel to upsert and
\* flushed its events
C26_Witness ==
  /\ pc = "done"
  /\ status = "finished"
  /\ AllRecordsProcessed
  /\ new_streams_batch # <<>>
  /\ channel_batch = <<>>
  /\ event_list # <<>>
  /\ pipeline # <<>>
  /\ \A i \in 1..Len(new_streams_batch) :
       \E k \in 1..Len(dbStreams) : dbStreams[k] = new_streams_batch[i]

\* the run loop stands at a channel record whose name (tvg-name if there is
\* one, else the raw name; runs of whitespace collapsed, ends trimmed) has
\* fewer than 2 characters
AtDegenerateRecord ==
  /\ AtChannelRecord
  /\ Len(NormalizeName(IF queue[idx].tvg = None THEN Strip(queue[idx].name)
                       ELSE queue[idx].tvg[1])) < 2

C27_Step ==
  AtDegenerateRecord =>
    /\ UNCHANGED <<counters, unique_channels_in_group, channel_batch,
                   new_streams_batch, event_list>>
    /\ UNCHANGED <<dbChannels, dbStreams, cache, zall, zgenre>>
    /\ status' = status

\* C27: a channel record whose normalized name has fewer than 2 characters
\* is dropped with no effect: no counter changes, the set of pairs seen in
\* this run stays as it is, nothing is staged.
C27_DegenerateDropped == [][C27_Step]_vars

\* the same degenerate record came twice: neither is in the seen set and
\* the second was not counted as a skipped duplicate
C27_Witness ==
  /\ pc \in {"loop", "streams"}
  /\ Len(log) >= 2
  /\ log[Len(log)].outcome = "short"
  /\ log[Len(log) - 1].outcome = "short"
  /\ log[Len(log)].url = log[Len(log) - 1].url
  /\ <<log[Len(log)].name, log[Len(log)].url>> \notin unique_channels_in_group
  /\ counters.skipped = 0

\* both patterns of the classifier match the name of the record
BothPatternsMatch(rec) ==
  /\ \E i \in 1..Len(Strip(rec.name)) : Strip(rec.name)[i] \in {11, 12}
  /\ \E i \in 1..Len(Strip(rec.name)) : Strip(rec.name)[i] \in 21..25

\* what the event engine and what the channel engine can change
eventSide == <<cache, zall, zgenre, event_list>>
channelSide == <<channel_batch, unique_channels_in_group, new_streams_batch, counters>>

C28_Step ==
  /\ pc = "loop" => /\ Len(queue) = Len(content)
                    /\ Len(log) = idx - 1
                    /\ idx <= Len(queue)
  /\ AtRecord =>
       /\ idx' = idx + 1
       /\ log' = Append(log, last')
       /\ UNCHANGED <<dbChannels, dbStreams, queue>>
       /\ IF queue[idx].url = ""
          THEN /\ last'.kind = "none"
               /\ UNCHANGED <<eventSide, channelSide, status>>
          ELSE IF BothPatternsMatch(queue[idx])
          THEN /\ last'.kind = "event"
               /\ UNCHANGED channelSide
          ELSE /\ last'.kind = "channel"
               /\ UNCHANGED eventSide

\* C28: every record of the playlist that has a URL is handed exactly once
\* to exactly one engine, to the event engine when both the date pattern
\* and the time pattern match its name and to the channel engine if not; a
\* record without URL is handed to neither and changes nothing.
C28_DispatchedOnce == [][C28_Step]_vars

\* a record whose name holds a date and no time went to the channel engine
C28_Witness ==
  /\ pc \in {"loop", "streams"}
  /\ last.kind = "channel"
  /\ \E i \in 1..Len(queue[idx - 1].name) : queue[idx - 1].name[i] = 11
  /\ queue[idx - 1].url # ""

\* the channel records processed so far in this run whose normalized name
\* has at least 2 characters
AcceptedChannelRecords ==
  {i \in 1..Len(log) : log[i].kind = "channel" /\ log[i].outcome # "short"}

\* C29: at every point of a run the counters account for every accepted
\* channel record exactly once: added + merged + skipped is the number of
\* channel records processed so far with a name of 2 characters or more,
\* added is the number of staged Channels and merged that of staged Streams.
C29_Claim ==
  /\ counters.added + counters.merged + counters.skipped
       = Cardinality(AcceptedChannelRecords)
  /\ counters.added = Len(channel_batch)
  /\ counters.merged = Len(new_streams_batch)

\* every stream of the sequence has this owner
AllOwnedBy(streams, id) == \A n \in 1..Len(streams) : streams[n].meta_id = id

\* C30: every stream the engine creates has one owner, which exists: a
\* staged merge Stream has the id of a channel of the snapshot whose title
\* its name matches (not the hash of its own name), the stream of a staged
\* new Channel has the id of that Channel, and every stream of a staged or
\* cached Event has the id of that Event.
C30_StreamsHaveOwner ==
  /\ \A i \in 1..Len(new_streams_batch) :
       \E c \in 1..Len(existing_tv_channels_in_db) :
         /\ existing_tv_channels_in_db[c].id = new_streams_batch[i].meta_id
         /\ FuzzRatio(new_streams_batch[i].name, existing_tv_channels_in_db[c].title)
              >= FUZZY_MATCH_THRESHOLD
  /\ \A i \in 1..Len(channel_batch) :
       AllOwnedBy(channel_batch[i].streams, channel_batch[i].id)
  /\ \A i \in 1..Len(event_list) :
       AllOwnedBy(event_list[i].streams, event_list[i].id)
  /\ \A k \in DOMAIN cache :
       AllOwnedBy(cache[k].value.streams, cache[k].value.id)

\* a Stream staged for a channel under another spelling of its name, and a
\* cached Event that holds a stream of a record with another title
C30_Witness ==
  /\ \E i \in 1..Len(new_streams_batch) :
       new_streams_batch[i].meta_id # ChannelId(new_streams_batch[i].name)
  /\ \E k \in DOMAIN cache :
       \E n \in 1..Len(cache[k].value.streams) :
         cache[k].value.streams[n].name # cache[k].value.title

\* no two streams of the sequence have one URL
DistinctUrls(streams) ==
  \A m, n \in 1..Len(streams) : streams[m].url = streams[n].url => m = n

\* C31: after any sequence of runs, one after the other, no cached event
\* holds two streams with the same URL, also when two records of one run
\* with one URL are merged into the same cached event: the second reads the
\* entry the first has just rewritten.
C31_NoDuplicateStreamUrl ==
  \A k \in DOMAIN cache : DistinctUrls(cache[k].value.streams)

\* the last two records of the run had one URL and met the same cached
\* event: the first was merged into it, the second found its URL there
C31_Witness ==
  /\ pc \in {"loop", "streams"}
  /\ Len(log) >= 2
  /\ log[Len(log) - 1].kind = "event" /\ log[Len(log) - 1].outcome = "merged"
  /\ log[Len(log)].kind = "event" /\ log[Len(log)].outcome = "duplicate"
  /\ log[Len(log)].url = log[Len(log) - 1].url
  /\ log[Len(log)].key = log[Len(log) - 1].key
  /\ Len(cache[log[Len(log)].key[1]].value.streams) = 2

\* the per-genre indexes agree with "events:all", and both with the cache
IndexesConsistent ==
  /\ \A p \in DOMAIN zgenre :
       /\ p[2] \in DOMAIN zall
       /\ zall[p[2]] = zgenre[p]
  /\ \A k \in DOMAIN zall :
       /\ k \in DOMAIN cache
       /\ cache[k].value.event_start_timestamp = zall[k]

C32_Step ==
  /\ IndexesConsistent'
  /\ (AtEventRecord /\ last'.outcome = "merged") =>
       /\ UNCHANGED <<zall, zgenre>>
       /\ cache' # cache

\* C32: the event indexes agree with each other and with the cache: every
\* key of an index "events:genre:<g>" is in "events:all" with the same
\* score, the score is the event_start_timestamp of the cache entry written
\* for the key, and the merge of a stream changes no index.
C32_IndexesConsistent == [][C32_Step]_vars

\* a stream has just been merged into a cached event that is listed in
\* "events:all" and in the index of its genre
C32_Witness ==
  /\ pc \in {"loop", "streams"}
  /\ last.kind = "event"
  /\ last.outcome = "merged"
  /\ last.key[1] \in DOMAIN zall
  /\ \E p \in DOMAIN zgenre : p[2] = last.key[1]
  /\ Len(cache[last.key[1]].value.streams) >= 2

====
